---- MODULE Spec2Model ----
(***************************************************************************)
(* Photo Size Reducer: the Resizer (new dimensions from a target box), the *)
(* SizeEstimator and the DimensionSolver (binary search on a scale), as    *)
(* written in src/cli_photo_reducer.py and src/photo_reducer.py.           *)
(*                                                                         *)
(* The code computes its dimensions in Python floats (IEEE-754 binary64):  *)
(* img.width / img.height, width / img_ratio, height * img_ratio,          *)
(* (min_scale + max_scale) / 2, original_width * scale, each followed by   *)
(* int().  The first part of the module is that arithmetic, bit for bit:   *)
(* naturals of any size as little-endian sequences of 15-bit limbs, and a  *)
(* float as sign, 53-bit mantissa and exponent, rounded half-to-even.      *)
(***************************************************************************)
EXTENDS Integers, Sequences, FiniteSets, TLC

----------------------------------------------------------------------------
(* Naturals of any size: <<>> is 0, a[1] the least significant limb, the    *)
(* last limb never 0.                                                       *)

LimbBits == 15
LimbBase == 2^LimbBits

RECURSIVE BN(_)
BN(n) == IF n = 0 THEN <<>> ELSE <<n % LimbBase>> \o BN(n \div LimbBase)

RECURSIVE BTrim(_)
BTrim(a) ==
    IF a = <<>> THEN <<>>
    ELSE IF a[Len(a)] = 0 THEN BTrim(SubSeq(a, 1, Len(a) - 1)) ELSE a

RECURSIVE BCmpFrom(_, _, _)
BCmpFrom(a, b, i) ==
    IF i = 0 THEN 0
    ELSE IF a[i] > b[i] THEN 1
    ELSE IF a[i] < b[i] THEN -1
    ELSE BCmpFrom(a, b, i - 1)

\* -1, 0 or 1 as a < b, a = b, a > b.
BCmp(a, b) ==
    IF Len(a) > Len(b) THEN 1
    ELSE IF Len(a) < Len(b) THEN -1
    ELSE BCmpFrom(a, b, Len(a))

RECURSIVE BAddFrom(_, _, _, _)
BAddFrom(a, b, i, c) ==
    IF i > Len(a) /\ i > Len(b)
    THEN (IF c = 0 THEN <<>> ELSE <<c>>)
    ELSE LET s == (IF i <= Len(a) THEN a[i] ELSE 0)
                  + (IF i <= Len(b) THEN b[i] ELSE 0) + c
         IN  <<s % LimbBase>> \o BAddFrom(a, b, i + 1, s \div LimbBase)

BAdd(a, b) == BAddFrom(a, b, 1, 0)

RECURSIVE BSubFrom(_, _, _, _)
BSubFrom(a, b, i, c) ==
    IF i > Len(a) THEN <<>>
    ELSE LET s == a[i] - (IF i <= Len(b) THEN b[i] ELSE 0) - c
         IN  IF s < 0
             THEN <<s + LimbBase>> \o BSubFrom(a, b, i + 1, 1)
             ELSE <<s>> \o BSubFrom(a, b, i + 1, 0)

\* a - b, for a >= b.
BSub(a, b) == BTrim(BSubFrom(a, b, 1, 0))

RECURSIVE BMulFrom(_, _, _, _)
BMulFrom(a, k, i, c) ==
    IF i > Len(a) THEN BN(c)
    ELSE LET s == a[i] * k + c
         IN  <<s % LimbBase>> \o BMulFrom(a, k, i + 1, s \div LimbBase)

\* a * k, for 0 <= k < LimbBase.
BMulSmall(a, k) == IF k = 0 THEN <<>> ELSE BMulFrom(a, k, 1, 0)

RECURSIVE BDivFrom(_, _, _, _)
BDivFrom(a, k, i, r) ==
    IF i = 0 THEN <<>>
    ELSE LET s == r * LimbBase + a[i]
         IN  BDivFrom(a, k, i - 1, s % k) \o <<s \div k>>

\* floor(a / k), for 0 < k <= LimbBase.
BDivSmall(a, k) == BTrim(BDivFrom(a, k, Len(a), 0))

\* a * 2^n.
BShl(a, n) ==
    IF a = <<>> THEN <<>>
    ELSE [i \in 1..(n \div LimbBits) |-> 0] \o BMulSmall(a, 2^(n % LimbBits))

\* floor(a / 2^n).
BShr(a, n) ==
    IF n \div LimbBits >= Len(a) THEN <<>>
    ELSE BDivSmall(SubSeq(a, n \div LimbBits + 1, Len(a)), 2^(n % LimbBits))

RECURSIVE BitLen(_)
BitLen(n) == IF n = 0 THEN 0 ELSE 1 + BitLen(n \div 2)

\* The number of bits of a: 0 for 0.
BBitLen(a) ==
    IF a = <<>> THEN 0 ELSE LimbBits * (Len(a) - 1) + BitLen(a[Len(a)])

RECURSIVE BToIntFrom(_, _)
BToIntFrom(a, i) ==
    IF i > Len(a) THEN 0 ELSE a[i] + LimbBase * BToIntFrom(a, i + 1)

\* The value of a, which must fit an integer of the checker.
BToInt(a) == BToIntFrom(a, 1)

\* g, or g - 1 when g * d is more than R.
BLower(R, d, g) ==
    IF g > 0 /\ BCmp(BMulSmall(d, g), R) > 0 THEN g - 1 ELSE g

\* The two top limbs of R, seen from the top limb of d (of L limbs).
BTop(R, L) ==
    (IF Len(R) > L THEN R[L + 1] * LimbBase ELSE 0)
    + (IF Len(R) >= L THEN R[L] ELSE 0)

BMin(a, b) == IF a < b THEN a ELSE b

\* The next limb of a quotient: floor(R / d) for R < d * LimbBase, where the
\* top limb of d is at least LimbBase / 2.  The guess from the top limbs is
\* at most 2 too large.
BQuotLimb(R, d) ==
    BLower(R, d, BLower(R, d, BLower(R, d,
        BMin(BTop(R, Len(d)) \div d[Len(d)], LimbBase - 1))))

\* floor(r * LimbBase^n / d), its limbs given most significant first in q,
\* and whether the division left a remainder; for r < d.
RECURSIVE BDivLimbs(_, _, _, _)
BDivTake(R, d, n, q, g) ==
    BDivLimbs(BSub(R, BMulSmall(d, g)), d, n - 1, <<g>> \o q)

BDivNext(R, d, n, q) == BDivTake(R, d, n, q, BQuotLimb(R, d))

BDivLimbs(r, d, n, q) ==
    IF n = 0 THEN [q |-> BTrim(q), inexact |-> r # <<>>]
    ELSE IF r = <<>> THEN BDivNext(<<>>, d, n, q)
    ELSE BDivNext(<<0>> \o r, d, n, q)

----------------------------------------------------------------------------
(* Python floats: [neg, m, e] is (-1)^neg * m * 2^e with m of exactly       *)
(* MantBits bits, or m = <<>> for 0.0.  Every operation is the exact result *)
(* rounded to the nearest float, ties to the even mantissa.  The values the *)
(* program meets are far from the subnormal and the overflow ranges.        *)

MantBits == 53

FZero == [neg |-> FALSE, m |-> <<>>, e |-> 0]

\* q1 * 2^e, where q1 has MantBits bits or is 2^MantBits.
FPack(neg, q1, e) ==
    IF BBitLen(q1) > MantBits
    THEN [neg |-> neg, m |-> BShr(q1, 1), e |-> e + 1]
    ELSE [neg |-> neg, m |-> q1, e |-> e]

\* Whether the bits cut off q are more than half a unit of q, or half a
\* unit with q odd: c compares them with half a unit.
FRoundsUp(c, sticky, q) == c > 0 \/ (c = 0 /\ (sticky \/ q[1] % 2 = 1))

\* M cut to q, its top MantBits bits, sh bits dropped.
FCut(neg, M, e, sticky, sh, q) ==
    FPack(neg,
          IF FRoundsUp(BCmp(BSub(M, BShl(q, sh)), BShl(<<1>>, sh - 1)), sticky, q)
          THEN BAdd(q, <<1>>) ELSE q,
          e + sh)

\* M * 2^e, M of n bits, rounded to a float.
FRoundBits(neg, M, e, sticky, n) ==
    IF n = 0 THEN FZero
    ELSE IF n <= MantBits
    THEN [neg |-> neg, m |-> BShl(M, MantBits - n), e |-> e - (MantBits - n)]
    ELSE FCut(neg, M, e, sticky, n - MantBits, BShr(M, n - MantBits))

\* M * 2^e (a little more when sticky: the bits cut off below M were not
\* all 0) rounded to a float.  A sticky M has more than MantBits + 1 bits.
FRound(neg, M, e, sticky) == FRoundBits(neg, M, e, sticky, BBitLen(M))

Abs(n) == IF n < 0 THEN -n ELSE n

\* float(n) of an integer n.
FloatOfInt(n) == FRound(n < 0, BN(Abs(n)), 0, FALSE)

\* The limbs of quotient a float division works out: enough for more than
\* MantBits + 1 bits whatever the operands.
QuotLimbs == 8

FQuotRound(neg, r, e) == FRound(neg, r.q, e, r.inexact)

\* |a / d| for a natural a, 0 < a < LimbBase, in limbs, and a float d # 0, as
\* a float of sign neg.  The divisor's mantissa is shifted to fill its top
\* limb.
FQuotient(neg, a, d) ==
    FQuotRound(neg,
               BDivLimbs(a, BShl(d.m, LimbBits * Len(d.m) - MantBits), QuotLimbs, <<>>),
               LimbBits * Len(d.m) - MantBits - LimbBits * QuotLimbs - d.e)

\* a / b of two integers (true division), b # 0.
TrueDiv(a, b) ==
    IF a = 0 THEN FZero
    ELSE FQuotient((a < 0) # (b < 0), BN(Abs(a)), FloatOfInt(Abs(b)))

\* n / d of an integer by a float, d # 0.
IntDivFloat(n, d) ==
    IF n = 0 THEN FZero ELSE FQuotient((n < 0) # d.neg, BN(Abs(n)), d)

\* n * d of an integer and a float, |n| < LimbBase.
IntMulFloat(n, d) ==
    IF n = 0 \/ d.m = <<>> THEN FZero
    ELSE FRound((n < 0) # d.neg, BMulSmall(d.m, Abs(n)), d.e, FALSE)

\* a + b of two floats that are not negative.
FAdd(a, b) ==
    IF a.m = <<>> THEN b
    ELSE IF b.m = <<>> THEN a
    ELSE LET lo == IF a.e <= b.e THEN a.e ELSE b.e
         IN  FRound(FALSE, BAdd(BShl(a.m, a.e - lo), BShl(b.m, b.e - lo)), lo, FALSE)

\* d / 2 (exact).
FHalf(d) == IF d.m = <<>> THEN d ELSE [d EXCEPT !.e = @ - 1]

\* -1, 0 or 1 as a < b, a = b, a > b, for floats that are not negative.
FCmp(a, b) ==
    IF a.m = <<>> THEN (IF b.m = <<>> THEN 0 ELSE -1)
    ELSE IF b.m = <<>> THEN 1
    ELSE IF a.e > b.e THEN 1
    ELSE IF a.e < b.e THEN -1
    ELSE BCmp(a.m, b.m)

Signed(neg, mag) == IF neg THEN 0 - mag ELSE mag

\* int(d) as it would be if it rounded a float that is not negative to the
\* nearest integer.
PyIntNearest(d) ==
    Signed(FALSE,
           BToInt(BShr(FAdd(d, FHalf(FloatOfInt(1))).m,
                       0 - FAdd(d, FHalf(FloatOfInt(1))).e)))

\* int(d): the integer part, truncated toward zero.
PyInt(d) ==
    Signed(d.neg,
           IF d.m = <<>> THEN 0
           ELSE IF d.e >= 0 THEN BToInt(BShl(d.m, d.e))
           ELSE BToInt(BShr(d.m, 0 - d.e)))

----------------------------------------------------------------------------
(* The programs.  An image file is <<W, H>>, the size Image.open reports,   *)
(* or Unreadable, a file Image.open raises on.                              *)

VARIABLES
    entry,                  \* the program running: "resizer", "estimator",
                            \* "cli", "gui" (a batch), "solve" (Calculate)
    input_files,            \* cli: input_paths; gui: self.input_files
    output_dir,             \* cli: args.output; gui: self.output_dir ("" = none)
    width_var, height_var,  \* gui: the Width and Height entries (a number or text)
    maintain_aspect_ratio,  \* cli: not args.no_aspect_ratio; gui: the checkbox
    width, height,          \* cli: args.width, args.height; gui: the worker's arguments
    files,                  \* the list the running loop iterates over
    pc,                     \* where the program is
    idx,                    \* images the loop has taken so far
    processed,              \* cli: success_count; gui: processed
    error_count,            \* cli: error_count
    resized,                \* the sizes handed to img.resize, in order
    outputs,                \* the files written: [src, dims, dir], in order
    messages,               \* what was reported: message boxes, printed errors
    clicks,                 \* gui: how often PROCESS IMAGES was pressed
    current_img,            \* gui: self.current_img, the previewed image or None
    target_size_kb_var,     \* gui: the Target Size entry (a number or text)
    size_mode,              \* gui: TRUE = target size in KB, FALSE = dimensions
    search,                 \* calculate_dimensions: its locals while it searches
    samples,                \* the trials of the search: [scale, box, size]
    calls,                  \* the calls of estimate_file_size so far
    started                 \* gui: the checkbox and the output directory as
                            \* they were when the running batch was started

vars == <<entry, input_files, output_dir, width_var, height_var,
          maintain_aspect_ratio, width, height, files, pc, idx, processed,
          error_count, resized, outputs, messages, clicks, current_img,
          target_size_kb_var, size_mode, search, samples, calls, started>>

solveVars == <<current_img, target_size_kb_var, size_mode, search, samples, calls>>

None == <<>>

\* The solver's variables while no Calculate is running.
SolveIdle ==
    /\ current_img = None /\ target_size_kb_var = <<>> /\ size_mode = TRUE
    /\ search = <<>> /\ samples = <<>> /\ calls = 0

\* The presses of PROCESS IMAGES one run of the window is followed for.
MaxClicks == 2

Unreadable == <<0, 0>>

Readable(img) == img # Unreadable

One == FloatOfInt(1)

\* KeepRatio as it would be if the landscape branch multiplied.
KeepRatioMultiplied(img_ratio, w, h) ==
    IF FCmp(img_ratio, One) > 0
    THEN <<w, PyInt(IntMulFloat(w, img_ratio))>>
    ELSE <<PyInt(IntMulFloat(h, img_ratio)), h>>

\* The new dimensions for the box w x h, keeping the ratio img_ratio.
KeepRatio(img_ratio, w, h) ==
    IF FCmp(img_ratio, One) > 0
    THEN <<w, PyInt(IntDivFloat(w, img_ratio))>>
    ELSE <<PyInt(IntMulFloat(h, img_ratio)), h>>

\* The new dimensions of an image of W x H for the box w x h.
NewDimensions(W, H, w, h, aspect) ==
    IF aspect THEN KeepRatio(TrueDiv(W, H), w, h) ELSE <<w, h>>

\* "Don't allow dimensions greater than original".
ClampToOriginal(size, W, H) == <<BMin(size[1], W), BMin(size[2], H)>>

\* The size estimate_file_size resizes the image of W x H to, for the box
\* w x h.
EstimateDims(W, H, w, h, aspect) ==
    ClampToOriginal(NewDimensions(W, H, w, h, aspect), W, H)

\* img.resize(size): Pillow raises ValueError("height and width must be > 0")
\* unless both are at least 1.
ResizeAccepts(size) == size[1] >= 1 /\ size[2] >= 1

Resized(size) == [size |-> size, saved |-> ResizeAccepts(size)]

\* One image through open, new dimensions, resize and save: what was handed
\* to img.resize (<<>> when the open failed) and whether the file was saved.
ResizeOne(img, w, h, aspect) ==
    IF ~Readable(img)
    THEN [size |-> <<>>, saved |-> FALSE]
    ELSE Resized(NewDimensions(img[1], img[2], w, h, aspect))

\* TakeImage as it would be if a failed image ended the loop.
TakeImageAborting(r, dir, report) ==
    /\ idx' = IF r.saved THEN idx + 1 ELSE Len(files)
    /\ resized' = IF r.size = <<>> THEN resized ELSE Append(resized, r.size)
    /\ outputs' = IF r.saved
                  THEN Append(outputs, [src |-> idx + 1, dims |-> r.size, dir |-> dir])
                  ELSE outputs
    /\ processed' = IF r.saved THEN processed + 1 ELSE processed
    /\ messages' = IF r.saved THEN messages ELSE Append(messages, report)

\* The state after the loop has taken files[idx + 1] with the result r.
TakeImage(r, dir, report) ==
    /\ idx' = idx + 1
    /\ resized' = IF r.size = <<>> THEN resized ELSE Append(resized, r.size)
    /\ outputs' = IF r.saved
                  THEN Append(outputs, [src |-> idx + 1, dims |-> r.size, dir |-> dir])
                  ELSE outputs
    /\ processed' = IF r.saved THEN processed + 1 ELSE processed
    /\ messages' = IF r.saved THEN messages ELSE Append(messages, report)

----------------------------------------------------------------------------
(* The Resizer alone: one box computed for one image, as the batches do it  *)
(* (entry "resizer") and as estimate_file_size does it (entry "estimator"). *)

ResizeBox ==
    /\ entry = "resizer" /\ pc = "start"
    /\ resized' = <<NewDimensions(files[1][1], files[1][2], width, height,
                                  maintain_aspect_ratio)>>
    /\ pc' = "done"
    /\ UNCHANGED <<entry, input_files, output_dir, width_var, height_var,
                   maintain_aspect_ratio, width, height, files, idx, processed,
                   error_count, outputs, messages, clicks>>
    /\ UNCHANGED <<solveVars, started>>

EstimateBox ==
    /\ entry = "estimator" /\ pc = "start"
    /\ resized' = <<EstimateDims(files[1][1], files[1][2], width, height,
                                 maintain_aspect_ratio)>>
    /\ pc' = "done"
    /\ UNCHANGED <<entry, input_files, output_dir, width_var, height_var,
                   maintain_aspect_ratio, width, height, files, idx, processed,
                   error_count, outputs, messages, clicks>>
    /\ UNCHANGED <<solveVars, started>>

----------------------------------------------------------------------------
(* cli_photo_reducer.py: main() and resize_image().                         *)

\* resize_image's result r goes to the counts.
CliCount(r) ==
    /\ TakeImage(r, output_dir, "Error")
    /\ error_count' = IF r.saved THEN error_count ELSE error_count + 1

\* One turn of main's loop: resize_image on the next path, then the count.
CliProcessNext ==
    /\ entry = "cli" /\ pc = "loop" /\ idx < Len(files)
    /\ CliCount(ResizeOne(files[idx + 1], width, height, maintain_aspect_ratio))
    /\ UNCHANGED <<entry, input_files, output_dir, width_var, height_var,
                   maintain_aspect_ratio, width, height, files, pc, clicks>>
    /\ UNCHANGED <<solveVars, started>>

\* The summary, and the exit status.
CliFinish ==
    /\ entry = "cli" /\ pc = "loop" /\ idx = Len(files)
    /\ pc' = IF error_count = 0 THEN "exit0" ELSE "exit1"
    /\ messages' = Append(messages, "Processing complete")
    /\ UNCHANGED <<entry, input_files, output_dir, width_var, height_var,
                   maintain_aspect_ratio, width, height, files, idx, processed,
                   error_count, resized, outputs, clicks>>
    /\ UNCHANGED <<solveVars, started>>

----------------------------------------------------------------------------
(* photo_reducer.py: the PROCESS IMAGES button and its worker thread.       *)

\* An entry's text: <<n>> reads as the integer n, NotANumber is a text int()
\* raises ValueError on.
NotANumber == <<>>

IsNumber(v) == v # NotANumber

\* process_images: the checks, then the worker is started with the box.
ProcessImages ==
    /\ entry = "gui" /\ pc = "idle" /\ clicks < MaxClicks
    /\ clicks' = clicks + 1
    /\ IF input_files = <<>>
       THEN /\ messages' = Append(messages, "No Input")
            /\ UNCHANGED <<width, height, files, pc, started>>
       ELSE IF output_dir = ""
       THEN /\ messages' = Append(messages, "No Output")
            /\ UNCHANGED <<width, height, files, pc, started>>
       ELSE IF ~IsNumber(width_var) \/ ~IsNumber(height_var)
       THEN /\ messages' = Append(messages, "Invalid Size: not numbers")
            /\ UNCHANGED <<width, height, files, pc, started>>
       ELSE IF width_var[1] <= 0 \/ height_var[1] <= 0
       THEN /\ messages' = Append(messages, "Invalid Size: not positive")
            /\ UNCHANGED <<width, height, files, pc, started>>
       ELSE /\ width' = width_var[1]
            /\ height' = height_var[1]
            /\ files' = input_files
            /\ pc' = "worker"
            /\ started' = [aspect |-> maintain_aspect_ratio, dir |-> output_dir]
            /\ UNCHANGED messages
    /\ UNCHANGED <<entry, input_files, output_dir, width_var, height_var,
                   maintain_aspect_ratio, idx, processed, error_count,
                   resized, outputs>>
    /\ UNCHANGED solveVars

\* One turn of the worker's loop; the checkbox and the output directory are
\* read as they are at that moment.
WorkerNext ==
    /\ entry = "gui" /\ pc = "worker" /\ idx < Len(files)
    /\ TakeImage(ResizeOne(files[idx + 1], width, height, maintain_aspect_ratio),
                 output_dir, "Processing Error")
    /\ UNCHANGED <<entry, input_files, output_dir, width_var, height_var,
                   maintain_aspect_ratio, width, height, files, pc, error_count,
                   clicks>>
    /\ UNCHANGED <<solveVars, started>>

\* After the loop: "Successfully processed <processed> of <total> images."
WorkerFinish ==
    /\ entry = "gui" /\ pc = "worker" /\ idx = Len(files)
    /\ pc' = "complete"
    /\ messages' = Append(messages, "Complete")
    /\ UNCHANGED <<entry, input_files, output_dir, width_var, height_var,
                   maintain_aspect_ratio, width, height, files, idx, processed,
                   error_count, resized, outputs, clicks>>
    /\ UNCHANGED <<solveVars, started>>

\* What the user does in the window while the worker runs.  The handlers run
\* on the main thread, between any two turns of the worker's loop.

\* The Maintain aspect ratio checkbox is clicked.
ToggleAspect ==
    /\ entry = "gui" /\ pc = "worker"
    /\ maintain_aspect_ratio' = ~maintain_aspect_ratio
    /\ UNCHANGED <<entry, input_files, output_dir, width_var, height_var, width,
                   height, files, pc, idx, processed, error_count, resized,
                   outputs, messages, clicks, solveVars, started>>

OtherDir == "other"

\* select_output_dir: another directory is chosen.
SelectOutputDir ==
    /\ entry = "gui" /\ pc = "worker" /\ output_dir # OtherDir
    /\ output_dir' = OtherDir
    /\ UNCHANGED <<entry, input_files, width_var, height_var,
                   maintain_aspect_ratio, width, height, files, pc, idx,
                   processed, error_count, resized, outputs, messages, clicks,
                   solveVars, started>>

OtherImages == <<<<3, 3>>>>

\* select_images: other images are chosen; self.input_files is a new list.
SelectImages ==
    /\ entry = "gui" /\ pc = "worker" /\ input_files # OtherImages
    /\ input_files' = OtherImages
    /\ UNCHANGED <<entry, output_dir, width_var, height_var,
                   maintain_aspect_ratio, width, height, files, pc, idx,
                   processed, error_count, resized, outputs, messages, clicks,
                   solveVars, started>>

----------------------------------------------------------------------------
(* photo_reducer.py: the Calculate Dimensions button (calculate_dimensions) *)
(* and the estimator it calls (estimate_file_size).  The handler runs on    *)
(* the Tk main thread without interruption; it is followed here one call of *)
(* the estimator at a time, because what a call returns is the codec's      *)
(* answer and not the program's.  Sizes are counted in bytes: buffer.tell() *)
(* / 1024 and a whole target in KB are exact doubles, and so are their      *)
(* difference and its comparisons.                                          *)

KB == 1024

\* The loop as it would be with one pass less.
SearchIterationsShort == 10 - 1

\* range(10)
SearchIterations == 10

MinDimension == 10

\* float('inf'), and a difference d as <<d>>.
Infinity == <<>>

\* min_scale = 0.01
MinScale == TrueDiv(1, 100)

Max(a, b) == IF a >= b THEN a ELSE b

\* The same side without the floor of 10.
TestSideUnfloored(side, scale) == PyInt(IntMulFloat(side, scale))

\* max(10, int(original_width * scale))
TestSide(side, scale) == Max(MinDimension, PyInt(IntMulFloat(side, scale)))

TestBox(img, scale) == <<TestSide(img[1], scale), TestSide(img[2], scale)>>

\* The comparison as it would be if an equal difference replaced the best.
CloserOrEqual(diff, best_diff) == best_diff = Infinity \/ diff <= best_diff[1]

\* diff < best_diff
Closer(diff, best_diff) == best_diff = Infinity \/ diff < best_diff[1]

\* The test as it would be if an estimate equal to the target did not pass.
AlreadySmallerStrictly(initial_size, target) == initial_size < target

\* initial_size <= target_kb
AlreadySmaller(initial_size, target) == initial_size <= target

\* Narrowed as it would be if a size equal to the target shrank the interval.
NarrowedTiesShrink(s, scale, size, diff) ==
    [s EXCEPT !.best_diff = IF Closer(diff, s.best_diff) THEN <<diff>> ELSE @,
              !.best_scale = IF Closer(diff, s.best_diff) THEN scale ELSE @,
              !.max_scale = IF size >= s.target THEN scale ELSE @,
              !.min_scale = IF size >= s.target THEN @ ELSE scale,
              !.i = @ + 1]

\* The locals after one pass of the loop that measured size at scale.
Narrowed(s, scale, size, diff) ==
    [s EXCEPT !.best_diff = IF Closer(diff, s.best_diff) THEN <<diff>> ELSE @,
              !.best_scale = IF Closer(diff, s.best_diff) THEN scale ELSE @,
              !.max_scale = IF size > s.target THEN scale ELSE @,
              !.min_scale = IF size > s.target THEN @ ELSE scale,
              !.i = @ + 1]

\* The locals as the loop starts.
Started(initial_size, target) ==
    [min_scale |-> MinScale, max_scale |-> One, best_scale |-> FHalf(One),
     best_diff |-> Infinity, i |-> 0, initial_size |-> initial_size,
     target |-> target]

\* What stays as it is while Calculate runs.
solveFrame == <<entry, input_files, output_dir, maintain_aspect_ratio, width,
                height, files, idx, processed, error_count, outputs, clicks,
                current_img, target_size_kb_var, started>>

\* The sizes the codec can answer a call of the estimator with, in bytes:
\* at the original dimensions, and at a box of the search.
ProbeBytes == {3 * KB, 8 * KB}

EstimateBytes == {3 * KB, 6 * KB}

\* The handler ends with the message box msg.
Returns(msg) ==
    /\ messages' = Append(messages, msg)
    /\ pc' = "returned"

\* The estimator raises an exception that is no ValueError (the image data
\* is corrupt, the codec cannot write the image's mode): no except clause of
\* the handler takes it, it leaves the handler and Tk prints its traceback.
Raises ==
    /\ pc' = "raised"
    /\ UNCHANGED <<width_var, height_var, search, messages>>

\* The first call of the estimator, at the original dimensions, handed the
\* size dims to img.resize: ValueError, or the fast path, or the search, or
\* the codec's own error, which the first load of the image data meets.
Probe(img, target, dims) ==
    /\ calls' = calls + 1
    /\ resized' = Append(resized, dims)
    /\ IF ~ResizeAccepts(dims)
       THEN /\ Returns("Invalid Input")
            /\ UNCHANGED <<width_var, height_var, search>>
       ELSE \/ \E size \in ProbeBytes :
                  IF AlreadySmaller(size, target)
                  THEN /\ width_var' = <<img[1]>>
                       /\ height_var' = <<img[2]>>
                       /\ search' = [initial_size |-> size, target |-> target]
                       /\ Returns("No Resizing Needed")
                  ELSE /\ search' = Started(size, target)
                       /\ pc' = "search"
                       /\ UNCHANGED <<width_var, height_var, messages>>
            \/ Raises

\* calculate_dimensions up to the end of its first call of the estimator.
CalculateDimensions ==
    /\ entry = "solve" /\ pc = "idle"
    /\ IF current_img = None \/ input_files = <<>>
       THEN /\ Returns("No Image")
            /\ UNCHANGED <<width_var, height_var, search, calls, resized>>
       ELSE IF ~IsNumber(target_size_kb_var)
       THEN /\ Returns("Invalid Input")
            /\ UNCHANGED <<width_var, height_var, search, calls, resized>>
       ELSE IF target_size_kb_var[1] <= 0
       THEN /\ Returns("Invalid Size")
            /\ UNCHANGED <<width_var, height_var, search, calls, resized>>
       ELSE Probe(current_img, target_size_kb_var[1] * KB,
                  EstimateDims(current_img[1], current_img[2], current_img[1],
                               current_img[2], maintain_aspect_ratio))
    /\ UNCHANGED <<size_mode, samples>>
    /\ UNCHANGED solveFrame

\* One pass of the loop: the estimator is called with box and hands dims to
\* img.resize; its answer moves the best scale and one end of the interval.
Trial(scale, box, dims) ==
    /\ calls' = calls + 1
    /\ resized' = Append(resized, dims)
    /\ IF ~ResizeAccepts(dims)
       THEN /\ Returns("Invalid Input")
            /\ UNCHANGED <<search, samples>>
       ELSE \E size \in EstimateBytes :
               /\ samples' = Append(samples, [scale |-> scale, box |-> box,
                                              size |-> size])
               /\ search' = Narrowed(search, scale, size,
                                     Abs(size - search.target))
               /\ UNCHANGED <<messages, pc>>

TrialBox(img, scale, box) ==
    Trial(scale, box,
          EstimateDims(img[1], img[2], box[1], box[2], maintain_aspect_ratio))

TrialAt(img, scale) == TrialBox(img, scale, TestBox(img, scale))

SearchStep ==
    /\ entry = "solve" /\ pc = "search" /\ search.i < SearchIterations
    /\ TrialAt(current_img, FHalf(FAdd(search.min_scale, search.max_scale)))
    /\ UNCHANGED <<width_var, height_var, size_mode>>
    /\ UNCHANGED solveFrame

\* After the loop: the entries are set, the window goes to manual dimensions,
\* toggle_mode and update_preview each call the estimator through
\* update_file_size_estimate when the preview is drawn (a ValueError of that
\* call is swallowed there), and the message box calls it once more.
Report(box, dims) ==
    /\ width_var' = <<box[1]>>
    /\ height_var' = <<box[2]>>
    /\ size_mode' = FALSE
    /\ \E drawn \in BOOLEAN :
          /\ calls' = calls + (IF drawn THEN 3 ELSE 1)
          /\ resized' = resized \o (IF drawn THEN <<dims, dims, dims>>
                                             ELSE <<dims>>)
    /\ Returns(IF ResizeAccepts(dims) THEN "Dimensions Calculated"
                                      ELSE "Invalid Input")

ReportBox(img, box) ==
    Report(box,
           EstimateDims(img[1], img[2], box[1], box[2], maintain_aspect_ratio))

ApplyBestScale ==
    /\ entry = "solve" /\ pc = "search" /\ search.i = SearchIterations
    /\ ReportBox(current_img, TestBox(current_img, search.best_scale))
    /\ UNCHANGED <<search, samples>>
    /\ UNCHANGED solveFrame

----------------------------------------------------------------------------
(* Bounds and inputs.                                                       *)

MaxDim == 9      \* the Resizer alone: sides and boxes run over 1..MaxDim
MaxBox == 3      \* the batches: box sides run over -1..MaxBox
MaxBatch == 2    \* the batches: at most this many input files

\* The sizes of the spec's two scenarios, beside the small ones.
ScenarioImages == {<<2000, 1000>>, <<1000, 2000>>}
ScenarioBox == <<800, 600>>

ResizerInputs ==
    ((1..MaxDim) \X (1..MaxDim) \X (1..MaxDim) \X (1..MaxDim))
    \cup {<<i[1], i[2], ScenarioBox[1], ScenarioBox[2]>> : i \in ScenarioImages}

BatchImages == {<<4, 2>>, <<2, 4>>, <<3, 3>>, <<5, 1>>, Unreadable}

Batches == UNION {[1..n -> BatchImages] : n \in 1..MaxBatch}

BoxSides == -1..MaxBox

EntryTexts == {<<n>> : n \in BoxSides} \cup {NotANumber}

InitResizer ==
    /\ entry \in {"resizer", "estimator"} /\ pc = "start"
    /\ \E i \in ResizerInputs :
          /\ input_files = <<<<i[1], i[2]>>>>
          /\ files = <<<<i[1], i[2]>>>>
          /\ width = i[3] /\ height = i[4]
    /\ maintain_aspect_ratio \in BOOLEAN
    /\ output_dir = "" /\ width_var = NotANumber /\ height_var = NotANumber
    /\ idx = 0 /\ processed = 0 /\ error_count = 0
    /\ resized = <<>> /\ outputs = <<>> /\ messages = <<>> /\ clicks = 0
    /\ SolveIdle /\ started = None

\* main() up to its loop: at least one input path, the box of the arguments.
InitCli ==
    /\ entry = "cli" /\ pc = "loop"
    /\ input_files \in Batches /\ files = input_files
    /\ width \in BoxSides /\ height \in BoxSides
    /\ maintain_aspect_ratio \in BOOLEAN
    /\ output_dir = "out" /\ width_var = NotANumber /\ height_var = NotANumber
    /\ idx = 0 /\ processed = 0 /\ error_count = 0
    /\ resized = <<>> /\ outputs = <<>> /\ messages = <<>> /\ clicks = 0
    /\ SolveIdle /\ started = None

\* The window as the user has set it up when PROCESS IMAGES is pressed.
InitGui ==
    /\ entry = "gui" /\ pc = "idle"
    /\ input_files \in Batches \cup {<<>>}
    /\ output_dir \in {"", "out"}
    /\ width_var \in EntryTexts /\ height_var \in EntryTexts
    /\ maintain_aspect_ratio \in BOOLEAN
    /\ width = 0 /\ height = 0 /\ files = <<>>
    /\ idx = 0 /\ processed = 0 /\ error_count = 0
    /\ resized = <<>> /\ outputs = <<>> /\ messages = <<>> /\ clicks = 0
    /\ SolveIdle /\ started = None

\* The images Calculate is pressed on: one under 10 pixels, a landscape and
\* a portrait one, and one a hundred times wider than high.
SolveImages == {<<8, 6>>, <<40, 30>>, <<300, 400>>, <<1000, 10>>}

\* The Target Size entry: no number, zero, and targets the estimates are
\* above of, equal to and below of.
TargetTexts == {NotANumber, <<0>>, <<3>>, <<4>>, <<6>>}

\* The window as the user has set it up when Calculate Dimensions is pressed.
InitSolve ==
    /\ entry = "solve" /\ pc = "idle"
    /\ input_files \in {<<img>> : img \in SolveImages} \cup {<<>>}
    /\ current_img = IF input_files = <<>> THEN None ELSE input_files[1]
    /\ target_size_kb_var \in TargetTexts
    /\ maintain_aspect_ratio \in BOOLEAN
    /\ width_var = <<800>> /\ height_var = <<600>> /\ size_mode = TRUE
    /\ search = <<>> /\ samples = <<>> /\ calls = 0
    /\ output_dir = "" /\ width = 0 /\ height = 0 /\ files = <<>>
    /\ idx = 0 /\ processed = 0 /\ error_count = 0
    /\ resized = <<>> /\ outputs = <<>> /\ messages = <<>> /\ clicks = 0
    /\ started = None

NextSolve == CalculateDimensions \/ SearchStep \/ ApplyBestScale
SpecSolve == InitSolve /\ [][NextSolve]_vars

NextResizer == ResizeBox \/ EstimateBox
NextCli == CliProcessNext \/ CliFinish
NextGui ==
    \/ ProcessImages \/ WorkerNext \/ WorkerFinish
    \/ ToggleAspect \/ SelectOutputDir \/ SelectImages

SpecResizer == InitResizer /\ [][NextResizer]_vars
SpecCli == InitCli /\ [][NextCli]_vars
SpecGui == InitGui /\ [][NextGui]_vars

Init == InitCli \/ InitGui
Next == NextCli \/ NextGui
Spec == Init /\ [][Next]_vars

----------------------------------------------------------------------------
(* The claims about the Resizer and the batches.                            *)

\* r is n / d cut to its integer part by the float arithmetic: the floor of
\* n / d, or one less where d divides n and the float quotient falls short.
TruncOf(r, n, d) ==
    IF n % d = 0 THEN r \in {n \div d, n \div d - 1} ELSE r = n \div d

\* r is n / d rounded to a nearest integer.
NearestOf(r, n, d) == 2 * Abs(r * d - n) <= d

\* r is within one of n / d.
WithinOne(r, n, d) == Abs(r * d - n) <= d

ResizerDone == entry = "resizer" /\ pc = "done"

\* C1 as stated: with the aspect ratio kept the Resizer returns
\* (TW, round(TW / (W/H))) for W/H > 1 and (round(TH * (W/H)), TH) otherwise.
C1_Rounded ==
    (ResizerDone /\ maintain_aspect_ratio) =>
        IF files[1][1] > files[1][2]
        THEN /\ resized[1][1] = width
             /\ NearestOf(resized[1][2], width * files[1][2], files[1][1])
        ELSE /\ resized[1][2] = height
             /\ NearestOf(resized[1][1], height * files[1][1], files[1][2])

\* C1 amended: with the aspect ratio kept the Resizer returns
\* (TW, int(TW / (W/H))) for W/H > 1 and (int(TH * (W/H)), TH) otherwise (a
\* square image takes the second branch), int() cutting the float to its
\* integer part; 2000x1000 in (800,600) gives (800,400) and 1000x2000 gives
\* (300,600).
C1_Truncated ==
    (ResizerDone /\ maintain_aspect_ratio) =>
        /\ IF files[1][1] > files[1][2]
           THEN /\ resized[1][1] = width
                /\ TruncOf(resized[1][2], width * files[1][2], files[1][1])
           ELSE /\ resized[1][2] = height
                /\ TruncOf(resized[1][1], height * files[1][1], files[1][2])
        /\ (files[1] = <<2000, 1000>> /\ <<width, height>> = ScenarioBox)
              => resized[1] = <<800, 400>>
        /\ (files[1] = <<1000, 2000>> /\ <<width, height>> = ScenarioBox)
              => resized[1] = <<300, 600>>

\* A 9x7 image in a box 9 wide: 9 / (9/7) falls short of 7 and is cut to 6.
C1_Witness ==
    /\ ResizerDone /\ maintain_aspect_ratio
    /\ files[1] = <<9, 7>> /\ width = 9 /\ resized[1] = <<9, 6>>

\* C2 as stated: with an image and a box of sides >= 1, every size handed
\* to the resize step has width >= 1 and height >= 1.
C2_ResizedAtLeastOne ==
    (entry \in {"cli", "gui"} /\ width >= 1 /\ height >= 1) =>
        \A i \in 1..Len(resized) : resized[i][1] >= 1 /\ resized[i][2] >= 1

\* C8: with the aspect ratio kept, the axis the Resizer computes is within
\* 1 px of the exact proportional value, and the other axis is the box's.
C8_WithinOnePixel ==
    (ResizerDone /\ maintain_aspect_ratio) =>
        IF files[1][1] > files[1][2]
        THEN /\ resized[1][1] = width
             /\ WithinOne(resized[1][2], width * files[1][2], files[1][1])
        ELSE /\ resized[1][2] = height
             /\ WithinOne(resized[1][1], height * files[1][1], files[1][2])

\* A portrait image whose computed width is not the exact proportion.
C8_Witness ==
    /\ ResizerDone /\ maintain_aspect_ratio
    /\ files[1][1] < files[1][2]
    /\ resized[1][1] * files[1][2] # height * files[1][1]

\* C9 as stated: without the aspect ratio the Resizer returns exactly
\* (TW, TH), in the batches and in the estimator, with no clamping.
C9_ExactBox ==
    (entry \in {"resizer", "estimator"} /\ pc = "done" /\ ~maintain_aspect_ratio)
        => resized[1] = <<width, height>>

\* The box a request came with: the arguments, or the two entries.
RequestNotPositive ==
    \/ entry = "cli" /\ (width <= 0 \/ height <= 0)
    \/ /\ entry = "gui" /\ IsNumber(width_var) /\ IsNumber(height_var)
       /\ (width_var[1] <= 0 \/ height_var[1] <= 0)

\* C10 as stated: a request whose box has a side <= 0 writes no output, in
\* the CLI and in the GUI batch.
C10_NothingWritten == RequestNotPositive => outputs = <<>>

----------------------------------------------------------------------------
(* The claims about Calculate Dimensions (solve).                           *)

\* The handler has returned with the message box msg.
SolveReturned(msg) == entry = "solve" /\ pc = "returned" /\ messages = <<msg>>

\* The search ran and its result was reported.
Calculated == SolveReturned("Dimensions Calculated")

\* The fast path returned the original.
FastPath == SolveReturned("No Resizing Needed")

\* The dimensions solve returned: the two entries.
Returned == <<width_var[1], height_var[1]>>

\* C3 as stated: solve never returns a width above W or a height above H,
\* also for an original under 10 px on an axis.
C3_NeverExceedsOriginal ==
    (Calculated \/ FastPath) =>
        Returned[1] <= current_img[1] /\ Returned[2] <= current_img[2]

\* C4 as stated: solve never returns a dimension below 10 px, whichever of
\* the fast path and the search produced the result.
C4_AtLeastTen ==
    (Calculated \/ FastPath) => Returned[1] >= 10 /\ Returned[2] >= 10

\* C4 amended: a result of the search is never below 10 px on either axis,
\* however small the target; the fast path returns the original dimensions,
\* which are below 10 px when the image is.
C4_SearchAtLeastTen ==
    /\ Calculated => Returned[1] >= 10 /\ Returned[2] >= 10
    /\ FastPath => Returned = current_img

\* A 40x30 image whose best scale gives less than 10 px: both sides are 10.
C4_Witness ==
    /\ Calculated /\ current_img = <<40, 30>> /\ Returned = <<10, 10>>
    /\ TestSideUnfloored(40, search.best_scale) < 10

\* C5 as stated: in the search case solve has made exactly 10 calls of the
\* estimator after the probe when it has finished and reported its result.
C5_ExactlyTen == Calculated => calls - 1 = 10

\* C5 amended: in the search case the loop makes exactly 10 calls of the
\* estimator after the probe; when solve has finished and reported its
\* result it has made 11 calls after the probe, the report's own estimate
\* being one more, or 13 when the preview is drawn, each of the two
\* refreshes of the preview estimating once.
C5_TenThenReport ==
    /\ (entry = "solve" /\ pc = "search") =>
          calls - 1 = Len(samples) /\ Len(samples) <= 10
    /\ Calculated => Len(samples) = 10 /\ calls - 1 \in {11, 13}

\* The search reported with the preview drawn: 13 calls after the probe.
C5_Witness == Calculated /\ Len(samples) = 10 /\ calls = 14

\* The first call of the estimator was made and it answered.
Probed ==
    entry = "solve" /\ calls > 0 /\ ResizeAccepts(resized[1]) /\ pc # "raised"

\* C6: if the estimate at the original dimensions is <= the target, solve
\* returns exactly the original (W, H), runs no pass of the search and calls
\* the estimator no further.
C6_FastPathReturnsOriginal ==
    (Probed /\ search.initial_size <= search.target) =>
        /\ FastPath
        /\ Returned = current_img
        /\ calls = 1 /\ samples = <<>>

\* The fast path on an estimate equal to the target, for the 300x400 image.
C6_Witness ==
    /\ Probed /\ FastPath /\ search.initial_size = search.target
    /\ current_img = <<300, 400>> /\ Returned = <<300, 400>>

\* The distance of sample i from the target.
Off(i) == Abs(samples[i].size - search.target)

\* The earliest of the samples nearest to the target.
EarliestBest ==
    CHOOSE i \in 1..Len(samples) :
        \A j \in 1..Len(samples) :
            Off(i) <= Off(j) /\ (j < i => Off(i) < Off(j))

\* C7: when the search runs, the scale solve uses is that of the sample
\* whose size is nearest to the target, the earliest one on ties, whatever
\* the estimator answers; the result is the box tried at that sample.
C7_BestSeen ==
    /\ (entry = "solve" /\ pc = "search" /\ samples # <<>>) =>
          search.best_scale = samples[EarliestBest].scale
    /\ Calculated =>
          /\ search.best_scale = samples[EarliestBest].scale
          /\ Returned = samples[EarliestBest].box

\* The best sample is not the last one, a later sample is as near as it, and
\* the sizes did not fall with the scale.
C7_Witness ==
    /\ Calculated /\ Len(samples) = 10
    /\ search.best_scale # samples[10].scale
    /\ \E j \in 1..10 : j > EarliestBest /\ Off(j) = Off(EarliestBest)
    /\ \E i, j \in 1..10 :
          /\ FCmp(samples[i].scale, samples[j].scale) < 0
          /\ samples[i].size > samples[j].size

----------------------------------------------------------------------------
(* The claims about failures, the batches' counts, the trial encodes, the   *)
(* bisection, the consistency of the result and the running batch.          *)

\* A call of the estimator failed, at the probe or in a pass of the search:
\* img.resize refused the size (ValueError), or the codec raised.
EstimatorFailed ==
    /\ entry = "solve" /\ calls > 0 /\ calls <= 11
    /\ \/ pc = "raised"
       \/ pc = "returned" /\ ~ResizeAccepts(resized[calls])

\* C11 as stated: when a call of the estimator fails at the probe or in the
\* search, solve ends with the failure reported as an encode error, the
\* failed call is its last call, and the Width and Height entries and the
\* mode are as they were before.
C11_FailureReported ==
    EstimatorFailed =>
        /\ pc = "returned" /\ messages = <<"Encode Error">>
        /\ calls = Len(samples) + 1
        /\ width_var = <<800>> /\ height_var = <<600>> /\ size_mode = TRUE

\* A batch is running or has ended.
InBatch == entry \in {"cli", "gui"} /\ pc \in {"loop", "worker", "exit0", "exit1", "complete"}

BatchEnded == entry \in {"cli", "gui"} /\ pc \in {"exit0", "exit1", "complete"}

\* The images reported as failed: the CLI's "Error: ..." lines, the GUI's
\* Processing Error boxes.
Failures ==
    Cardinality({k \in 1..Len(messages) : messages[k] \in {"Error", "Processing Error"}})

\* C12: in a batch of N images every image is attempted exactly once, in
\* input order, whatever failed before it; the success count is the number
\* of outputs written, and at the end succeeded + failed = N.
C12_EveryImageOnce ==
    InBatch =>
        /\ idx <= Len(files)
        /\ processed = Len(outputs)
        /\ processed + Failures = idx
        /\ \A i \in 1..Len(outputs) : outputs[i].src \in 1..idx
        /\ \A i, j \in 1..Len(outputs) : i < j => outputs[i].src < outputs[j].src
        /\ entry = "cli" => error_count = Failures
        /\ BatchEnded => idx = Len(files)

\* A CLI batch of two whose first image failed and whose second was written.
C12_Witness ==
    /\ entry = "cli" /\ pc = "exit1" /\ Len(files) = 2 /\ files[1] = Unreadable
    /\ Len(outputs) = 1 /\ outputs[1].src = 2
    /\ processed = 1 /\ error_count = 1

\* C13 as stated: for an original of at least 10 px on both axes, every
\* pass of the search has the estimator resize and encode the image at a
\* size of at least 10 px on each axis.
C13_TrialsAtLeastTen ==
    (entry = "solve" /\ calls > 1 /\ current_img[1] >= 10 /\ current_img[2] >= 10)
        => \A i \in 2..BMin(Len(resized), SearchIterations + 1) :
               resized[i][1] >= 10 /\ resized[i][2] >= 10

\* Exact values of scales: a float d in 0..1 counted in units of
\* 2^-ScaleBits, as a natural in limbs.
ScaleBits == MantBits + 11

Units(d) == IF d.m = <<>> THEN <<>> ELSE BShl(d.m, d.e + ScaleBits)

\* |a - b|
BDist(a, b) == IF BCmp(a, b) >= 0 THEN BSub(a, b) ELSE BSub(b, a)

\* max_scale - min_scale of the locals s, exactly.
WidthOf(s) == BSub(Units(s.max_scale), Units(s.min_scale))

\* 102400 times the width of s, and 102400 times 0.99 / 1024, in units.
WidthTimes102400(s) == BMulSmall(BShl(WidthOf(s), 10), 100)

NinetyNine == BShl(BN(99), ScaleBits)

\* The search has its locals: it is running or it has reported.
Searching == entry = "solve" /\ (pc = "search" \/ Calculated)

\* 0.01 <= min_scale < max_scale <= 1.0
BoundsOrdered(s) ==
    /\ FCmp(MinScale, s.min_scale) <= 0
    /\ FCmp(s.min_scale, s.max_scale) < 0
    /\ FCmp(s.max_scale, One) <= 0

\* The pass from the locals s to t sampled sm: strictly between the bounds
\* of s, and one bound of s replaced by it, the upper one when the size is
\* above the target and the lower one otherwise.
OneBoundReplaced(s, t, sm) ==
    /\ FCmp(s.min_scale, sm.scale) < 0
    /\ FCmp(sm.scale, s.max_scale) < 0
    /\ IF sm.size > s.target
       THEN t.max_scale = sm.scale /\ t.min_scale = s.min_scale
       ELSE t.min_scale = sm.scale /\ t.max_scale = s.max_scale

\* sm is the midpoint of s and the width of t half that of s, both within
\* tol units.
HalvedWithin(s, t, sm, tol) ==
    /\ BCmp(BDist(BShl(Units(sm.scale), 1),
                  BAdd(Units(s.min_scale), Units(s.max_scale))), tol) <= 0
    /\ BCmp(BDist(BShl(WidthOf(t), 1), WidthOf(s)), tol) <= 0

\* A pass of the search has just been made.
Passed == entry = "solve" /\ pc = "search" /\ Len(samples') = Len(samples) + 1

\* C14 as stated: 0.01 <= min_scale < max_scale <= 1.0 throughout; each pass
\* samples the midpoint, strictly between the bounds, and replaces exactly
\* one bound by it (max_scale when size > target, min_scale otherwise), so
\* the width halves; after 10 passes the width is 0.99 / 1024.
C14_WidthHalves ==
    /\ [](Searching =>
            /\ BoundsOrdered(search)
            /\ Len(samples) = 10 => BCmp(WidthTimes102400(search), NinetyNine) = 0)
    /\ [][Passed =>
            /\ OneBoundReplaced(search, search', samples'[Len(samples')])
            /\ HalvedWithin(search, search', samples'[Len(samples')], <<>>)]_vars

\* C14 amended: 0.01 <= min_scale < max_scale <= 1.0 throughout (0.01 and
\* every scale a double); each pass samples the double nearest to the
\* midpoint, strictly between the bounds, and replaces exactly one bound by
\* it (max_scale when size > target, min_scale otherwise, ties going to
\* min_scale); the width halves up to the rounding of the midpoint (twice
\* the new width is within 2^-53 of the old), and after 10 passes it is
\* within 2^-52 of 0.99 / 1024.
C14_WidthHalvesRounded ==
    /\ [](Searching =>
            /\ BoundsOrdered(search)
            /\ Len(samples) = 10 =>
                  BCmp(BDist(WidthTimes102400(search), NinetyNine),
                       BShl(BN(100), ScaleBits - 52 + 10)) <= 0)
    /\ [][Passed =>
            /\ OneBoundReplaced(search, search', samples'[Len(samples')])
            /\ HalvedWithin(search, search', samples'[Len(samples')],
                            BShl(<<1>>, ScaleBits - 53))]_vars

\* The search reported after a pass whose size equalled the target, whose
\* scale became the lower bound; the final width is not 0.99 / 1024.
C14_Witness ==
    /\ Calculated /\ Len(samples) = 10
    /\ \E i \in 1..10 :
          /\ samples[i].size = search.target
          /\ FCmp(samples[i].scale, search.min_scale) <= 0
    /\ BCmp(WidthTimes102400(search), NinetyNine) # 0

\* C15 as stated: with the aspect ratio kept, the Resizer given the
\* dimensions solve returned as the box returns those dimensions for the
\* same image, and the trial estimate of the best sample was measured at
\* them: reported, measured and written dimensions are one pair.
C15_ResizerConsistent ==
    (Calculated /\ maintain_aspect_ratio) =>
        /\ NewDimensions(current_img[1], current_img[2], Returned[1],
                         Returned[2], TRUE) = Returned
        /\ resized[EarliestBest + 1] = Returned

\* C16 as stated: every image of a GUI batch is resized with the box and
\* the checkbox, and written to the output directory, that were in effect
\* when the batch was started, whatever the user does meanwhile.
C16_ParametersFixed ==
    (entry = "gui" /\ pc \in {"worker", "complete"}) =>
        \A i \in 1..Len(outputs) :
            /\ outputs[i].dir = started.dir
            /\ outputs[i].dims =
                  NewDimensions(files[outputs[i].src][1], files[outputs[i].src][2],
                                width, height, started.aspect)

====
